---- MODULE Spec2Model ----
(***************************************************************************)
(* The chat relay of DomiDex/chat-webflow-ai: the synchronous relay        *)
(* handlers, the trigger handlers and the background handler, together     *)
(* with the provider and the hosting platform as their environment.        *)
(*                                                                         *)
(* One behaviour is one client-facing invocation (slot "main") of one of   *)
(* the handlers and, when that handler is a trigger whose dispatch the     *)
(* platform delivers, the invocation of the background stage (slot "bg").  *)
(* Invocations share nothing but the deployment's configuration.           *)
(***************************************************************************)
EXTENDS Naturals, Sequences, FiniteSets

\* Longest caller-supplied history that is enumerated.
MaxHistory == 1

(***************************************************************************)
(* JSON values as JavaScript sees them after JSON.parse.                   *)
(***************************************************************************)
JUndef == [k |-> "undefined"]
JNull == [k |-> "null"]
JStr(s) == [k |-> "string", s |-> s]
JNum(n) == [k |-> "number", n |-> n]
JList(items) == [k |-> "array", items |-> items]
\* An object literal: its own properties in insertion order.
JObject(pairs) == [k |-> "object", pairs |-> pairs]

\* obj[key] for a parsed value: undefined unless obj is an object holding key.
Prop(v, key) ==
    IF v.k = "object" /\ \E i \in 1..Len(v.pairs) : v.pairs[i][1] = key
    THEN LET i == CHOOSE j \in 1..Len(v.pairs) : v.pairs[j][1] = key
         IN  v.pairs[i][2]
    ELSE JUndef

\* v?.key
OptProp(v, key) == IF v.k \in {"undefined", "null"} THEN JUndef ELSE Prop(v, key)

\* v?.[0]
OptFirst(v) ==
    IF v.k = "array" /\ Len(v.items) > 0 THEN v.items[1] ELSE JUndef

\* JavaScript truthiness, as `!message` and `a || b` use it.
Truthy(v) ==
    CASE v.k \in {"undefined", "null"} -> FALSE
      [] v.k = "string" -> v.s # ""
      [] v.k = "number" -> v.n # 0
      [] OTHER -> TRUE

\* Whether `[...v]` succeeds: spreading a non-iterable throws a TypeError.
Iterable(v) == v.k = "array"

\* `const { message, history = [] } = value` throws on null and undefined.
Destructurable(v) == v.k \notin {"undefined", "null"}

\* `history = []` in a destructuring pattern: the default replaces undefined only.
WithDefault(v, d) == IF v.k = "undefined" THEN d ELSE v

\* JSON.stringify of an object literal: properties holding undefined are dropped.
RECURSIVE StringifyPairs(_)
StringifyPairs(pairs) ==
    IF pairs = <<>> THEN <<>>
    ELSE IF Head(pairs)[2].k = "undefined" THEN StringifyPairs(Tail(pairs))
    ELSE <<Head(pairs)>> \o StringifyPairs(Tail(pairs))

JSON_stringify(pairs) == [k |-> "text", json |-> TRUE, v |-> JObject(StringifyPairs(pairs))]

\* A request or response body: absent, text that is no JSON, or JSON text.
NoBody == [k |-> "none"]
BadJson == [k |-> "text", json |-> FALSE]
JsonText(v) == [k |-> "text", json |-> TRUE, v |-> v]
\* A response body whose stream fails while it is read.
BrokenBody == [k |-> "broken"]

\* JSON.parse(body): [ok, v]; ok = FALSE is the SyntaxError.
JSON_parse(body) ==
    IF body.k = "text" /\ body.json THEN [ok |-> TRUE, v |-> body.v]
    ELSE [ok |-> FALSE, v |-> JUndef]

(***************************************************************************)
(* Turns, payloads and the inputs that are enumerated.                     *)
(***************************************************************************)
\* { role, parts: [{ text }] }
Turn(role, text) ==
    JObject(<<<<"role", JStr(role)>>,
              <<"parts", JList(<<JObject(<<<<"text", text>>>>)>>)>>>>)

CallerTurns == {Turn("user", JStr("q")), Turn("model", JStr("a"))}

RECURSIVE SeqsUpTo(_, _)
SeqsUpTo(S, n) ==
    IF n = 0 THEN {<<>>}
    ELSE LET shorter == SeqsUpTo(S, n - 1)
         IN  shorter \cup {Append(q, x) : q \in shorter, x \in S}

\* The values `message` takes in a request body (JUndef: the key is absent).
Messages == {JUndef, JNull, JStr(""), JStr("hi"), JNum(0), JNum(7)}

\* The values `history` takes in a request body (JUndef: the key is absent).
Histories ==
    {JUndef, JNull, JObject(<<>>)} \cup {JList(h) : h \in SeqsUpTo(CallerTurns, MaxHistory)}

RequestObject(m, h) == JObject(StringifyPairs(<<<<"message", m>>, <<"history", h>>>>))

Bodies ==
    {NoBody, BadJson, JsonText(JNull)}
        \cup {JsonText(RequestObject(m, h)) : m \in Messages, h \in Histories}

Methods == {"POST", "GET", "OPTIONS"}

\* The shape the provider documents for a reply holding `text`.
AiData(text) ==
    JObject(<<<<"candidates",
        JList(<<JObject(<<<<"content",
            JObject(<<<<"parts", JList(<<JObject(<<<<"text", text>>>>)>>)>>>>)>>>>)>>)>>>>)

AiDatas ==
    {AiData(JStr("X")), AiData(JStr("")), AiData(JUndef), JNull, JObject(<<>>),
     JObject(<<<<"candidates", JList(<<>>)>>>>),
     JObject(<<<<"candidates", JList(<<JObject(<<>>)>>)>>>>),
     JObject(<<<<"candidates",
        JList(<<JObject(<<<<"content", JObject(<<>>)>>>>)>>)>>>>),
     JObject(<<<<"candidates",
        JList(<<JObject(<<<<"content", JObject(<<<<"parts", JList(<<>>)>>>>)>>>>)>>)>>>>)}

ProviderBodies == {BrokenBody, BadJson} \cup {JsonText(d) : d \in AiDatas}

\* The statuses the provider answers with: success, and errors of each kind the
\* handlers tell apart or pass on (bad request, rate limit, failure, overload).
ProviderStatuses == {200, 400, 429, 500, 503}

\* Response.ok
Ok(status) == status >= 200 /\ status <= 299

NoResponse == [status |-> 0, body |-> NoBody]

(***************************************************************************)
(* The handlers.                                                           *)
(*   relay          src/unnamed/part_003 (deadline, 429 or 502, history)   *)
(*   chat           src/netlify/functions/chat.ts:24-173 (deadline)        *)
(*   edge           src/unnamed/part_000 (Request/Response, no deadline)   *)
(*   trigger        src/unnamed/part_004 (dispatch by fetch)               *)
(*   triggerInvoke  src/netlify/functions/chat-trigger.ts (by invoke)      *)
(*   background     src/netlify/functions/chat-background.ts               *)
(***************************************************************************)
Relays == {"relay", "chat", "edge"}
Triggers == {"trigger", "triggerInvoke"}
Handlers == Relays \cup Triggers \cup {"background"}
Slots == {"main", "bg"}

ReadsApiKey(h) == h \in Relays \cup {"background"}
ChecksBodyPresent(h) == h # "edge"
HasDeadline(h) == h \in {"relay", "chat"}

VARIABLES
    inv,        \* per slot: the invocation's request, locals, calls and response
    dispatch,   \* the trigger's call to the background stage
    apiKey      \* whether GOOGLE_AI_API_KEY is configured

vars == <<inv, dispatch, apiKey>>

\* handler(event, context) at its first statement. clientContext: whether
\* context.clientContext carries identity and user; docsLoadable: whether
\* webflow-api-docs.json can be required (chat.ts).
NewInvocation(h, ev, cc, docs) ==
    [handler |-> h, event |-> ev, pc |-> "start",
     clientContext |-> cc, docsLoadable |-> docs,
     keyRead |-> FALSE, bodyRead |-> FALSE, bodyParsed |-> FALSE,
     message |-> JUndef, history |-> JUndef,
     aiPayload |-> <<>>, fetchCalls |-> <<>>, fetch |-> "none",
     aiResponse |-> NoResponse, timer |-> "none", aborts |-> 0,
     replyText |-> JUndef, responses |-> <<>>, log |-> <<>>]

\* A slot in which no handler has been invoked.
NotInvoked ==
    [NewInvocation("none", [httpMethod |-> "POST", body |-> NoBody], FALSE, TRUE)
        EXCEPT !.pc = "idle"]

Init ==
    /\ inv = [s \in Slots |-> NotInvoked]
    /\ dispatch = [state |-> "none", bodies |-> <<>>, delivered |-> FALSE, status |-> 0]
    /\ apiKey \in BOOLEAN

(***************************************************************************)
(* Responses.                                                              *)
(***************************************************************************)
Plain(text) == [k |-> "plain", text |-> text]
Response(status, body, headers) == [status |-> status, body |-> body, headers |-> headers]

JsonHeaders ==
    {<<"Content-Type", "application/json">>, <<"Access-Control-Allow-Origin", "*">>}
CorsHeaders ==
    JsonHeaders \cup {<<"Access-Control-Allow-Methods", "POST, OPTIONS">>,
                      <<"Access-Control-Allow-Headers", "Content-Type">>}

\* `return {...}`: the invocation ends with this response.
Finish(i, resp, entries) ==
    [i EXCEPT !.responses = Append(@, resp), !.pc = "done", !.log = @ \o entries]

\* The handler's outermost catch: every handler turns the exception into a 500.
OuterCatch(i, err) ==
    LET h == i.handler
        text == CASE h = "relay" -> "Function error"
                  [] h \in {"chat", "edge"} -> "Internal Server Error"
                  [] h \in Triggers -> "Trigger function error"
                  [] OTHER -> "Background task failed"
    IN  Finish(i, Response(500, [k |-> "plain", text |-> text, detail |-> err], {}),
               <<[level |-> "error", what |-> "exception", detail |-> JStr(err)]>>)

(***************************************************************************)
(* Validation, in the order of the code: method, credential, body, message.*)
(***************************************************************************)
AfterKey(h) == IF ChecksBodyPresent(h) THEN "checkBody" ELSE "parse"

\* Mutant: the method check is missing.
MethodStep_Late(i) ==
    [i EXCEPT !.pc = IF ReadsApiKey(i.handler) THEN "getKey" ELSE AfterKey(i.handler)]

\* if (event.httpMethod !== 'POST') return 405
MethodStep(i) ==
    IF i.event.httpMethod # "POST"
    THEN Finish(i, Response(405, IF i.handler = "background" THEN NoBody
                                 ELSE Plain("Method Not Allowed"), {}), <<>>)
    ELSE [i EXCEPT !.pc = IF ReadsApiKey(i.handler) THEN "getKey" ELSE AfterKey(i.handler)]

\* Mutant: the credential is read and used without being checked.
KeyStep_Unchecked(i, key) == [i EXCEPT !.keyRead = TRUE, !.pc = AfterKey(i.handler)]

\* const apiKey = process.env.GOOGLE_AI_API_KEY; if (!apiKey) return 500
KeyStep(i, key) ==
    LET r == [i EXCEPT !.keyRead = TRUE]
    IN  IF ~key
        THEN Finish(r, Response(500, IF i.handler = "background" THEN NoBody
                                     ELSE Plain("Internal Server Error: API key missing"), {}),
                    <<[level |-> "error", what |-> "api key missing", detail |-> JUndef]>>)
        ELSE [r EXCEPT !.pc = AfterKey(i.handler)]

\* Mutant: the body is parsed without checking that it is there.
BodyStep_NoCheck(i) == [i EXCEPT !.bodyRead = TRUE, !.pc = "parse"]

\* if (!event.body) return 400
BodyStep(i) ==
    LET r == [i EXCEPT !.bodyRead = TRUE]
    IN  IF i.event.body.k = "none"
        THEN Finish(r, Response(400, IF i.handler = "background" THEN NoBody
                                     ELSE Plain("Bad Request: Missing request body."), {}),
                    <<>>)
        ELSE [r EXCEPT !.pc = "parse"]

\* Mutant: a body that is no JSON is answered 400.
ParseStep_BadRequest(i) ==
    LET r == [i EXCEPT !.bodyRead = TRUE, !.bodyParsed = TRUE]
        parsed == JSON_parse(i.event.body)
    IN  IF ~parsed.ok THEN Finish(r, Response(400, Plain("Bad Request"), {}), <<>>)
        ELSE IF ~Destructurable(parsed.v) THEN OuterCatch(r, "TypeError")
        ELSE [r EXCEPT !.message = Prop(parsed.v, "message"),
                       !.history = WithDefault(Prop(parsed.v, "history"), JList(<<>>)),
                       !.pc = "checkMessage"]

\* const { message, history = [] } = JSON.parse(event.body)
ParseStep(i) ==
    LET r == [i EXCEPT !.bodyRead = TRUE, !.bodyParsed = TRUE]
        parsed == JSON_parse(i.event.body)
    IN  IF ~parsed.ok THEN OuterCatch(r, "SyntaxError")
        ELSE IF ~Destructurable(parsed.v) THEN OuterCatch(r, "TypeError")
        ELSE [r EXCEPT !.message = Prop(parsed.v, "message"),
                       !.history = WithDefault(Prop(parsed.v, "history"), JList(<<>>)),
                       !.pc = "checkMessage"]

\* Mutant: the message is not checked.
MessageStep_NoCheck(i) ==
    [i EXCEPT !.pc = IF i.handler \in Triggers THEN "dispatch" ELSE "build"]

\* if (!message) return 400
MessageStep(i) ==
    IF ~Truthy(i.message)
    THEN Finish(i, Response(400, IF i.handler = "background" THEN NoBody
                                 ELSE Plain("Bad Request: 'message' is required."), {}),
                <<>>)
    ELSE [i EXCEPT !.pc = IF i.handler \in Triggers THEN "dispatch" ELSE "build"]

(***************************************************************************)
(* The provider call.                                                      *)
(***************************************************************************)
\* Mutant: the new user turn is put before the history.
Contents_TurnFirst(history, message) == <<Turn("user", message)>> \o history.items

\* contents: [...history, { role: 'user', parts: [{ text: message }] }]
Contents(history, message) == history.items \o <<Turn("user", message)>>

\* Mutant: the background handler drops the history and the output limit.
AiPayload_BackgroundDiffers(h, history, message) ==
    [system_instruction |-> h # "edge",
     contents |-> IF h = "background" THEN <<Turn("user", message)>>
                  ELSE Contents(history, message),
     maxOutputTokens |-> IF h = "relay" THEN {1000} ELSE {}]

AiPayload(h, history, message) ==
    [system_instruction |-> h # "edge",
     contents |-> Contents(history, message),
     maxOutputTokens |-> IF h \in {"relay", "background"} THEN {1000} ELSE {}]

\* Building aiPayload; chat.ts first requires webflow-api-docs.json.
BuildStep(i, docs) ==
    IF i.handler = "chat" /\ ~docs THEN OuterCatch(i, "MODULE_NOT_FOUND")
    ELSE IF ~Iterable(i.history) THEN OuterCatch(i, "TypeError")
    ELSE [i EXCEPT !.aiPayload = <<AiPayload(i.handler, i.history, i.message)>>,
                   !.pc = "callProvider"]

\* setTimeout(() => controller.abort(), ...); await fetch(endpoint?key=..., {...})
CallStep(i) ==
    [i EXCEPT !.timer = IF HasDeadline(i.handler) THEN "armed" ELSE @,
              !.fetchCalls = Append(@, i.aiPayload[1]),
              !.fetch = "pending",
              !.pc = "awaitFetch"]

\* Mutant: the timer is cleared in the catch clause only, not after a fetch
\* that resolved.
ClearTimeout_OnlyOnFailure(i) ==
    [i EXCEPT !.timer = IF HasDeadline(i.handler) /\ i.fetch # "resolved"
                        THEN "cleared" ELSE @]

\* Mutant: the timer is cleared after a fetch that resolved only, not in the
\* catch clause.
ClearTimeout_OnlyOnSuccess(i) ==
    [i EXCEPT !.timer = IF HasDeadline(i.handler) /\ i.fetch = "resolved"
                        THEN "cleared" ELSE @]

\* clearTimeout(timeoutId)
ClearTimeout(i) == [i EXCEPT !.timer = IF HasDeadline(i.handler) THEN "cleared" ELSE @]

\* Mutant: an abort is handled like any other failure of the fetch.
ResumeStep_NoAbortCheck(i) ==
    LET c == ClearTimeout(i)
    IN  IF i.fetch = "resolved" THEN [c EXCEPT !.pc = "checkStatus"]
        ELSE IF i.handler = "relay"
        THEN Finish(c, Response(502, [k |-> "plain", text |-> "Bad Gateway",
                                      detail |-> "NetworkError"], {}), <<>>)
        ELSE OuterCatch(c, "NetworkError")

\* Mutant: a failed fetch is attempted once more.
ResumeStep_Retry(i) ==
    LET c == ClearTimeout(i)
    IN  IF i.fetch = "resolved" THEN [c EXCEPT !.pc = "checkStatus"]
        ELSE IF Len(i.fetchCalls) < 2 THEN [c EXCEPT !.pc = "callProvider"]
        ELSE OuterCatch(c, "NetworkError")

\* Mutant: a failure that is no abort is thrown on to the outer catch, as in chat.ts.
ResumeStep_Rethrow(i) ==
    LET c == ClearTimeout(i)
    IN  CASE i.fetch = "resolved" -> [c EXCEPT !.pc = "checkStatus"]
          [] i.fetch = "aborted" ->
                Finish(c, Response(504, Plain("Gateway Timeout"), {}),
                       <<[level |-> "error", what |-> "timed out", detail |-> JUndef]>>)
          [] OTHER -> OuterCatch(c, "NetworkError")

\* What follows `await fetch(...)`: the next statement, or the catch clauses.
ResumeStep(i) ==
    LET c == ClearTimeout(i)
    IN  CASE i.fetch = "resolved" -> [c EXCEPT !.pc = "checkStatus"]
          [] i.fetch = "aborted" ->
                Finish(c, Response(504, Plain("Gateway Timeout"), {}),
                       <<[level |-> "error", what |-> "timed out", detail |-> JUndef]>>)
          [] OTHER ->
                IF i.handler = "relay"
                THEN Finish(c, Response(502, [k |-> "plain", text |-> "Bad Gateway",
                                              detail |-> "NetworkError"], {}),
                            <<[level |-> "error", what |-> "fetch failed", detail |-> JUndef]>>)
                ELSE OuterCatch(c, "NetworkError")

\* Mutant: every provider error becomes 502.
ErrorStatus_AllBadGateway(h, status) == IF h \in {"relay", "background"} THEN 502 ELSE status

\* Mutant: the background handler passes 429 through as the relay does.
ErrorStatus_Passthrough(h, status) ==
    IF h \in {"relay", "background"} THEN (IF status = 429 THEN 429 ELSE 502) ELSE status

\* The status the handler answers a provider error with.
ErrorStatus(h, status) ==
    CASE h = "relay" -> IF status = 429 THEN 429 ELSE 502
      [] h = "background" -> 502
      [] OTHER -> status

ErrorBody(h, r) ==
    CASE h = "relay" -> [k |-> "plain", text |-> "AI Service Error",
                         status |-> r.status, errorBody |-> r.body]
      [] h = "background" -> NoBody
      [] OTHER -> [k |-> "plain", text |-> "AI Service Error", statusText |-> r.status]

\* if (!aiResponse.ok)
StatusStep(i) ==
    [i EXCEPT !.pc = IF Ok(i.aiResponse.status) THEN "readJson" ELSE "readError"]

\* const errorBody = await aiResponse.text(); return the error response
ErrorStep(i) ==
    IF i.aiResponse.body.k = "broken" THEN OuterCatch(i, "BodyError")
    ELSE Finish(i, Response(ErrorStatus(i.handler, i.aiResponse.status),
                            ErrorBody(i.handler, i.aiResponse), {}),
                <<[level |-> "error", what |-> "provider error",
                   detail |-> JNum(i.aiResponse.status)]>>)

ReplyFallback(h) ==
    CASE h = "relay" -> "No response text generated."
      [] h = "background" -> "BACKGROUND: No response text generated."
      [] OTHER -> "Sorry, I couldn't generate a response."

\* Mutant: the text is looked for one level too high, at candidates[0].content.text.
ExtractReply_WrongPath(aiData, h) ==
    LET candidates == {OptProp(d, "candidates") : d \in {aiData}}
        first == {OptFirst(c) : c \in candidates}
        content == {OptProp(f, "content") : f \in first}
        text == {OptProp(c, "text") : c \in content}
    IN  CHOOSE reply \in {IF Truthy(x) THEN x ELSE JStr(ReplyFallback(h)) : x \in text} : TRUE

\* Mutant: the `|| fallback` is missing.
ExtractReply_Unguarded(aiData, h) ==
    LET candidates == {OptProp(d, "candidates") : d \in {aiData}}
        first == {OptFirst(c) : c \in candidates}
        content == {OptProp(f, "content") : f \in first}
        parts == {OptProp(c, "parts") : c \in content}
        part == {OptFirst(p) : p \in parts}
        text == {OptProp(p, "text") : p \in part}
    IN  CHOOSE reply \in text : TRUE

\* aiData?.candidates?.[0]?.content?.parts?.[0]?.text || fallback
\* (each link of the chain is a one-element set, so that it is evaluated once)
ExtractReply(aiData, h) ==
    LET candidates == {OptProp(d, "candidates") : d \in {aiData}}
        first == {OptFirst(c) : c \in candidates}
        content == {OptProp(f, "content") : f \in first}
        parts == {OptProp(c, "parts") : c \in content}
        part == {OptFirst(p) : p \in parts}
        text == {OptProp(p, "text") : p \in part}
    IN  CHOOSE reply \in {IF Truthy(x) THEN x ELSE JStr(ReplyFallback(h)) : x \in text} : TRUE

\* Mutant: the model turn is appended before the user turn.
SuccessResponse_ModelFirst(h, history, message, reply) ==
    CASE h = "relay" ->
            Response(200, [k |-> "json", reply |-> reply,
                           history |-> history.items
                                \o <<Turn("model", reply), Turn("user", message)>>],
                     JsonHeaders)
      [] h = "background" -> Response(200, Plain("Background task completed."), {})
      [] OTHER -> Response(200, [k |-> "json", reply |-> reply], CorsHeaders)

SuccessResponse(h, history, message, reply) ==
    CASE h = "relay" ->
            Response(200, [k |-> "json", reply |-> reply,
                           history |-> history.items
                                \o <<Turn("user", message), Turn("model", reply)>>],
                     JsonHeaders)
      [] h = "background" -> Response(200, Plain("Background task completed."), {})
      [] OTHER -> Response(200, [k |-> "json", reply |-> reply], CorsHeaders)

\* Mutant: the background handler returns without logging the reply.
JsonStep_Unlogged(i) ==
    LET parsed == JSON_parse(i.aiResponse.body)
        reply == ExtractReply(parsed.v, i.handler)
    IN  IF ~parsed.ok THEN OuterCatch(i, "BodyError")
        ELSE Finish([i EXCEPT !.replyText = reply],
                    SuccessResponse(i.handler, i.history, i.message, reply), <<>>)

\* const aiData = await aiResponse.json(); extract the reply; return 200
JsonStep(i) ==
    LET parsed == JSON_parse(i.aiResponse.body)
        reply == ExtractReply(parsed.v, i.handler)
    IN  IF ~parsed.ok THEN OuterCatch(i, "BodyError")
        ELSE Finish([i EXCEPT !.replyText = reply],
                    SuccessResponse(i.handler, i.history, i.message, reply),
                    <<[level |-> "log", what |-> "reply",
                       detail |-> IF i.handler = "background" THEN reply ELSE JUndef]>>)

(***************************************************************************)
(* The trigger's dispatch to the background stage.                         *)
(***************************************************************************)
\* Mutant: the history is not forwarded.
BackgroundPayload_NoHistory(i) ==
    JSON_stringify(<<<<"message", i.message>>, <<"history", JList(<<>>)>>>>)

\* backgroundPayload = { message: message, history: history }, stringified
BackgroundPayload(i) == JSON_stringify(<<<<"message", i.message>>, <<"history", i.history>>>>)

\* Whether the trigger can issue the call at all.
CanDispatch(h, cc) == h = "trigger" \/ cc

\* Mutant: the dispatch call is not awaited.
DispatchSettled_NoAwait(d) == TRUE

\* `await`: the trigger continues once the dispatch call has resolved or thrown.
DispatchSettled(d) == d.state \in {"resolved", "rejected"}

\* Mutant: a dispatch call that threw is ignored and the request acknowledged.
DispatchOutcome_Swallowed(i, d) ==
    Finish(i, Response(202, [k |-> "json", message |-> "being processed"], JsonHeaders),
           <<[level |-> "log", what |-> "triggered", detail |-> JUndef]>>)

\* Mutant: the trigger looks at the status the dispatch call resolved with.
DispatchOutcome_ChecksStatus(i, d) ==
    IF d.state # "rejected" /\ d.status < 400
    THEN Finish(i, Response(202, [k |-> "json", message |-> "being processed"], JsonHeaders),
                <<[level |-> "log", what |-> "triggered", detail |-> JUndef]>>)
    ELSE Finish(i, Response(500, [k |-> "plain", text |-> "Could not invoke background task",
                                  detail |-> "NetworkError"], {}),
                <<[level |-> "error", what |-> "invoke error", detail |-> JUndef]>>)

\* The trigger's answer after the dispatch call: 202 unless the call threw.
DispatchOutcome(i, d) ==
    IF d.state # "rejected"
    THEN Finish(i, Response(202, [k |-> "json", message |-> "being processed"], JsonHeaders),
                <<[level |-> "log", what |-> "triggered", detail |-> JUndef]>>)
    ELSE IF i.handler = "trigger"
    THEN Finish(i, Response(500, [k |-> "plain", text |-> "Could not invoke background task",
                                  detail |-> "NetworkError"], {}),
                <<[level |-> "error", what |-> "invoke error", detail |-> JUndef]>>)
    ELSE OuterCatch(i, "NetworkError")

(***************************************************************************)
(* Actions of the handlers: one per statement that can end or suspend the  *)
(* invocation.                                                             *)
(***************************************************************************)
Step(s, at, next) ==
    /\ inv[s].pc = at
    /\ inv' = [inv EXCEPT ![s] = next]
    /\ UNCHANGED <<dispatch, apiKey>>

CheckMethod(s) == Step(s, "start", MethodStep(inv[s]))

GetApiKey(s) == Step(s, "getKey", KeyStep(inv[s], apiKey))

CheckBody(s) == Step(s, "checkBody", BodyStep(inv[s]))

ParseBody(s) == Step(s, "parse", ParseStep(inv[s]))

CheckMessage(s) == Step(s, "checkMessage", MessageStep(inv[s]))

BuildPayload(s) == Step(s, "build", BuildStep(inv[s], inv[s].docsLoadable))

CallProvider(s) == Step(s, "callProvider", CallStep(inv[s]))

\* Mutant: the fetch is not awaited.
FetchSettled_NoAwait(i) == TRUE

\* `await fetch(...)`: the promise has resolved, or rejected (failure or abort).
FetchSettled(i) == i.fetch \in {"resolved", "rejected", "aborted"}

\* The handler resumes only when the awaited fetch has settled.
ResumeAfterFetch(s) ==
    /\ FetchSettled(inv[s])
    /\ Step(s, "awaitFetch", ResumeStep(inv[s]))

CheckStatus(s) == Step(s, "checkStatus", StatusStep(inv[s]))

ReadError(s) == Step(s, "readError", ErrorStep(inv[s]))

ReadJson(s) == Step(s, "readJson", JsonStep(inv[s]))

\* await fetch('/.netlify/functions/chat-background', ...) or
\* await context.clientContext.functions.invoke('chat-background', ...)
Dispatch(s) ==
    /\ inv[s].pc = "dispatch"
    /\ IF CanDispatch(inv[s].handler, inv[s].clientContext)
       THEN /\ inv' = [inv EXCEPT ![s].pc = "awaitDispatch"]
            /\ dispatch' = [dispatch EXCEPT !.state = "pending",
                                            !.bodies = Append(@, BackgroundPayload(inv[s]))]
       ELSE /\ inv' = [inv EXCEPT ![s] =
                         Finish(inv[s], Response(500,
                                   Plain("Could not invoke background task."), {}),
                                <<[level |-> "error", what |-> "missing clientContext",
                                   detail |-> JUndef]>>)]
            /\ UNCHANGED dispatch
    /\ UNCHANGED apiKey

\* The trigger resumes only when the awaited dispatch call has settled.
ResumeAfterDispatch(s) ==
    /\ DispatchSettled(dispatch)
    /\ Step(s, "awaitDispatch", DispatchOutcome(inv[s], dispatch))

(***************************************************************************)
(* The environment: the provider, the deadline timer and the platform that *)
(* carries the dispatch to the background stage.                           *)
(***************************************************************************)
\* A client calls one of the deployed functions.
ClientRequests ==
    /\ inv["main"].pc = "idle"
    /\ \E h \in Handlers, m \in Methods, b \in Bodies :
        \E cc \in (IF h = "triggerInvoke" THEN BOOLEAN ELSE {FALSE}) :
        \E docs \in (IF h = "chat" THEN BOOLEAN ELSE {TRUE}) :
            inv' = [inv EXCEPT !["main"] =
                        NewInvocation(h, [httpMethod |-> m, body |-> b], cc, docs)]
    /\ UNCHANGED <<dispatch, apiKey>>

ProviderResponds(s) ==
    /\ inv[s].pc = "awaitFetch"
    /\ inv[s].fetch = "pending"
    /\ \E st \in ProviderStatuses, b \in ProviderBodies :
          inv' = [inv EXCEPT ![s].fetch = "resolved",
                             ![s].aiResponse = [status |-> st, body |-> b]]
    /\ UNCHANGED <<dispatch, apiKey>>

\* The fetch rejects: the provider cannot be reached.
ProviderFails(s) ==
    /\ inv[s].pc = "awaitFetch"
    /\ inv[s].fetch = "pending"
    /\ inv' = [inv EXCEPT ![s].fetch = "rejected"]
    /\ UNCHANGED <<dispatch, apiKey>>

\* The timer callback runs controller.abort(): the pending fetch rejects with
\* an AbortError.
DeadlineExpires(s) ==
    /\ inv[s].timer = "armed"
    /\ inv[s].fetch = "pending"
    /\ inv' = [inv EXCEPT ![s].timer = "fired",
                          ![s].aborts = @ + 1,
                          ![s].fetch = "aborted"]
    /\ UNCHANGED <<dispatch, apiKey>>

\* The dispatch call rejects (the stage is unreachable, the connection drops).
DispatchThrows ==
    /\ dispatch.state = "pending"
    /\ dispatch' = [dispatch EXCEPT !.state = "rejected"]
    /\ UNCHANGED <<inv, apiKey>>

\* The platform invokes the background handler with the dispatched body.
PlatformDelivers ==
    /\ dispatch.state = "pending"
    /\ ~dispatch.delivered
    /\ dispatch' = [dispatch EXCEPT !.delivered = TRUE]
    /\ inv' = [inv EXCEPT !["bg"] =
                  NewInvocation("background",
                      [httpMethod |-> "POST", body |-> dispatch.bodies[Len(dispatch.bodies)]],
                      FALSE, TRUE)]
    /\ UNCHANGED apiKey

\* The platform answers the dispatch itself, without invoking the stage.
PlatformRejects ==
    /\ dispatch.state = "pending"
    /\ ~dispatch.delivered
    /\ dispatch' = [dispatch EXCEPT !.state = "resolved", !.status = 404]
    /\ UNCHANGED <<inv, apiKey>>

\* The platform acknowledges a background invocation before it has finished.
PlatformAcks ==
    /\ dispatch.state = "pending"
    /\ dispatch.delivered
    /\ dispatch' = [dispatch EXCEPT !.state = "resolved", !.status = 202]
    /\ UNCHANGED <<inv, apiKey>>

\* The dispatch call resolves with the background handler's own response.
BackgroundAnswers ==
    /\ dispatch.state = "pending"
    /\ dispatch.delivered
    /\ inv["bg"].pc = "done"
    /\ dispatch' = [dispatch EXCEPT !.state = "resolved",
                                    !.status = inv["bg"].responses[1].status]
    /\ UNCHANGED <<inv, apiKey>>

HandlerStep ==
    \E s \in Slots :
        \/ CheckMethod(s)
        \/ GetApiKey(s)
        \/ CheckBody(s)
        \/ ParseBody(s)
        \/ CheckMessage(s)
        \/ BuildPayload(s)
        \/ CallProvider(s)
        \/ ResumeAfterFetch(s)
        \/ CheckStatus(s)
        \/ ReadError(s)
        \/ ReadJson(s)
        \/ Dispatch(s)
        \/ ResumeAfterDispatch(s)

EnvironmentStep ==
    \/ ClientRequests
    \/ \E s \in Slots : ProviderResponds(s) \/ ProviderFails(s) \/ DeadlineExpires(s)
    \/ DispatchThrows
    \/ PlatformDelivers
    \/ PlatformRejects
    \/ PlatformAcks
    \/ BackgroundAnswers

Next == HandlerStep \/ EnvironmentStep

Spec == Init /\ [][Next]_vars

\* The runtime runs a handler that is ready to continue; nothing obliges the
\* provider or the platform to answer.
FairSpec == Spec /\ WF_vars(HandlerStep)

(***************************************************************************)
(* What the claims speak of.                                               *)
(***************************************************************************)
Started(i) == i.pc # "idle"
Done(i) == i.pc = "done"
Status(i) == i.responses[1].status
IsPost(i) == i.event.httpMethod = "POST"
BodyParses(i) == JSON_parse(i.event.body).ok

\* The caller's message and history, read from the request itself.
CallerMessage(i) == Prop(JSON_parse(i.event.body).v, "message")
CallerHistory(i) == Prop(JSON_parse(i.event.body).v, "history")
CallerHistoryOrEmpty(i) ==
    IF CallerHistory(i) = JUndef THEN JList(<<>>) ELSE CallerHistory(i)

\* The message is absent or empty: no body, or a body that parses and holds
\* no message or the empty string.
EmptyMessage(i) ==
    \/ i.event.body = NoBody
    \/ BodyParses(i) /\ CallerMessage(i) \in {JUndef, JStr("")}

\* No call has left the invocation: none to the provider, none to the
\* background stage.
NoOutboundCall(i) ==
    /\ i.fetchCalls = <<>>
    /\ i.handler \in Triggers => dispatch.bodies = <<>>

\* C1 (as claimed): a POST whose message is absent or empty is answered 400 by
\* the relay (part_003), the triggers and the background handler, with no
\* outbound call.
C1_Original ==
    \A s \in Slots :
        LET i == inv[s]
        IN  (i.handler \in {"relay", "background"} \cup Triggers /\ IsPost(i) /\ EmptyMessage(i))
                => NoOutboundCall(i) /\ (Done(i) => Status(i) = 400)

\* C1 (amended): a POST whose message is absent or empty never causes an
\* outbound call; it is answered 400, except that the relay and the background
\* handler answer 500 when the credential is not configured and every handler
\* answers 500 when the body is the JSON value null.
C1_EmptyMessageRejected ==
    \A s \in Slots :
        LET i == inv[s]
        IN  (i.handler \in {"relay", "background"} \cup Triggers /\ IsPost(i) /\ EmptyMessage(i))
                => /\ NoOutboundCall(i)
                   /\ Done(i) =>
                        Status(i) = IF \/ ReadsApiKey(i.handler) /\ ~apiKey
                                       \/ i.event.body = JsonText(JNull)
                                    THEN 500 ELSE 400

C1_Witness ==
    \E s \in Slots :
        /\ inv[s].handler = "relay" /\ IsPost(inv[s])
        /\ inv[s].event.body = JsonText(RequestObject(JStr(""), JUndef))
        /\ Done(inv[s]) /\ Status(inv[s]) = 400 /\ inv[s].fetchCalls = <<>>

\* C2: a request whose method is not POST is answered 405 by every handler,
\* and the handler has then neither read nor parsed the body, nor read the
\* credential, nor issued an outbound call.
C2_NonPostRejected ==
    \A s \in Slots :
        LET i == inv[s]
        IN  (Started(i) /\ ~IsPost(i))
                => /\ ~i.keyRead /\ ~i.bodyRead /\ ~i.bodyParsed
                   /\ NoOutboundCall(i)
                   /\ i.pc \in {"start", "done"}
                   /\ Done(i) => Status(i) = 405

C2_Witness ==
    /\ inv["main"].handler = "background"
    /\ inv["main"].event.httpMethod = "GET"
    /\ inv["main"].event.body # NoBody
    /\ Done(inv["main"]) /\ Status(inv["main"]) = 405

\* C3: in the relays with a deadline (part_003, chat.ts), once the deadline
\* has elapsed on a provider call that has not resolved, that call is aborted,
\* no second call is issued, and the handler's response is 504.
C3_DeadlineGives504 ==
    \A s \in Slots :
        LET i == inv[s]
        IN  (HasDeadline(i.handler) /\ i.aborts > 0)
                => /\ i.aborts = 1
                   /\ i.fetch = "aborted"
                   /\ Len(i.fetchCalls) = 1
                   /\ i.pc \in {"awaitFetch", "done"}
                   /\ Done(i) => Status(i) = 504

C3_Witness ==
    /\ inv["main"].handler = "relay"
    /\ inv["main"].aborts = 1
    /\ Done(inv["main"]) /\ Status(inv["main"]) = 504
    /\ Len(inv["main"].fetchCalls) = 1

\* The request is a POST with a configured credential, a body that parses and
\* a non-empty message.
C4_Callable(i) == IsPost(i) /\ apiKey /\ BodyParses(i) /\ Truthy(CallerMessage(i))

\* C4 (as claimed): an invocation of the relay or of the background handler
\* issues at most one provider call, and exactly one when the request is a
\* POST with a configured credential, a parseable body and a non-empty message.
C4_Original ==
    \A s \in Slots :
        LET i == inv[s]
        IN  i.handler \in {"relay", "background"}
                => /\ Len(i.fetchCalls) <= 1
                   /\ (Done(i) /\ C4_Callable(i)) => Len(i.fetchCalls) = 1

\* C4 (amended): at most one provider call per invocation, whatever happens
\* to it; and exactly one when the request is a POST with a configured
\* credential, a parseable body, a non-empty message and a history that is
\* absent or a list.
C4_OneProviderCall ==
    \A s \in Slots :
        LET i == inv[s]
        IN  i.handler \in {"relay", "background"}
                => /\ Len(i.fetchCalls) <= 1
                   /\ (Done(i) /\ C4_Callable(i) /\ Iterable(CallerHistoryOrEmpty(i)))
                        => Len(i.fetchCalls) = 1

C4_Witness ==
    /\ inv["main"].handler = "relay"
    /\ inv["main"].fetch = "rejected"
    /\ Done(inv["main"]) /\ Status(inv["main"]) = 502
    /\ Len(inv["main"].fetchCalls) = 1

\* The provider has answered with a status that is not 2xx and an error text
\* the handler has read.
ProviderError(i) ==
    /\ i.fetch = "resolved"
    /\ ~Ok(i.aiResponse.status)
    /\ i.aiResponse.body # BrokenBody

C6_Original ==
    \A s \in Slots :
        LET i == inv[s]
        IN  (i.handler = "background" /\ Done(i) /\ ProviderError(i))
                => /\ i.aiResponse.status = 429 => Status(i) = 429
                   /\ i.aiResponse.status = 500 => Status(i) = 502

\* C6 (amended): in the background handler a provider answer with status 429
\* is answered 502, like one with status 500 and every other non-2xx status
\* whose error text has been read.
C6_BackgroundErrorIs502 ==
    \A s \in Slots :
        LET i == inv[s]
        IN  (i.handler = "background" /\ Done(i) /\ ProviderError(i))
                => Status(i) = 502

C6_Witness ==
    /\ inv["main"].handler = "background"
    /\ Done(inv["main"]) /\ ProviderError(inv["main"])
    /\ inv["main"].aiResponse.status = 429
    /\ Status(inv["main"]) = 502

\* The body is present and is no JSON.
MalformedBody(i) == i.event.body = BadJson

\* C7 (as claimed): a relay answers a POST whose body is present and does not
\* parse as JSON with 400, and issues no outbound call.  Stated for the
\* handlers that have the credential, which are the ones that reach the parse.
C7_Original ==
    \A s \in Slots :
        LET i == inv[s]
        IN  (i.handler \in Relays /\ IsPost(i) /\ MalformedBody(i) /\ apiKey)
                => i.fetchCalls = <<>> /\ (Done(i) => Status(i) = 400)

\* C7 (amended): a relay answers a POST whose body is present and does not
\* parse as JSON with 500, and issues no outbound call (the parse error
\* reaches the outer catch; without the credential the 500 comes earlier).
C7_MalformedBodyIs500 ==
    \A s \in Slots :
        LET i == inv[s]
        IN  (i.handler \in Relays /\ IsPost(i) /\ MalformedBody(i))
                => i.fetchCalls = <<>> /\ (Done(i) => Status(i) = 500)

C7_Witness ==
    /\ inv["main"].handler = "relay"
    /\ IsPost(inv["main"]) /\ MalformedBody(inv["main"])
    /\ apiKey /\ inv["main"].bodyParsed
    /\ Done(inv["main"]) /\ Status(inv["main"]) = 500

\* A POST whose body parses and holds a non-empty message.
ValidRequest(i) == IsPost(i) /\ BodyParses(i) /\ Truthy(CallerMessage(i))

\* {message, history} of the caller, history defaulting to the empty list.
ForwardedBody(i) ==
    JsonText(JObject(<<<<"message", CallerMessage(i)>>,
                       <<"history", CallerHistoryOrEmpty(i)>>>>))

Acknowledgement(r) ==
    /\ r.status = 202
    /\ r.body.k = "json"
    /\ DOMAIN r.body = {"k", "message"}

\* C8 (as claimed): for every valid POST the trigger issues exactly one
\* dispatch whose body is the caller's {message, history}, never calls the
\* provider, and responds 202 with {message: text}.
C8_Original ==
    LET i == inv["main"]
    IN  (i.handler \in Triggers /\ ValidRequest(i))
            => /\ i.fetchCalls = <<>>
               /\ Done(i) => /\ dispatch.bodies = <<ForwardedBody(i)>>
                             /\ Acknowledgement(i.responses[1])

\* C8 (amended): for every valid POST the trigger never calls the provider
\* and issues at most one dispatch, whose body is the caller's {message,
\* history}; the fetch-based trigger always issues it, the invoke-based one
\* only when the client context carries identity and user; the trigger
\* responds 202 with {message: text} when the dispatch call resolves and 500
\* when it throws or is not issued.
C8_TriggerForwards ==
    LET i == inv["main"]
    IN  (i.handler \in Triggers /\ ValidRequest(i))
            => /\ i.fetchCalls = <<>>
               /\ dispatch.bodies \in {<<>>, <<ForwardedBody(i)>>}
               /\ Done(i) =>
                    IF i.handler = "trigger" \/ i.clientContext
                    THEN /\ dispatch.bodies = <<ForwardedBody(i)>>
                         /\ dispatch.state \in {"resolved", "rejected"}
                         /\ dispatch.state = "resolved" => Acknowledgement(i.responses[1])
                         /\ dispatch.state = "rejected" => Status(i) = 500
                    ELSE dispatch.bodies = <<>> /\ Status(i) = 500

C8_Witness ==
    /\ inv["main"].handler = "trigger"
    /\ ValidRequest(inv["main"])
    /\ CallerHistory(inv["main"]) = JList(<<Turn("user", JStr("q"))>>)
    /\ Done(inv["main"]) /\ Status(inv["main"]) = 202
    /\ dispatch.bodies = <<ForwardedBody(inv["main"])>>

\* C9 (as claimed): the trigger's response does not wait for the dispatch
\* call: once the call is issued the trigger can respond, whether or not the
\* call has completed.
C9_Original ==
    \A s \in Slots :
        (inv[s].handler \in Triggers /\ inv[s].pc = "awaitDispatch")
            => ENABLED ResumeAfterDispatch(s)

\* C9 (amended): the trigger awaits the dispatch call and responds 202 only
\* once that call has resolved; it never calls the provider itself, and it
\* does not wait for the background handler to finish when the platform
\* answers the dispatch first.
C9_TriggerAwaitsDispatch ==
    LET i == inv["main"]
    IN  i.handler \in Triggers
            => /\ i.fetchCalls = <<>>
               /\ (i.pc = "awaitDispatch" /\ dispatch.state = "pending")
                    => ~ENABLED ResumeAfterDispatch("main")
               /\ (Done(i) /\ Status(i) = 202) => dispatch.state = "resolved"

C9_Witness ==
    /\ inv["main"].handler \in Triggers
    /\ Done(inv["main"]) /\ Status(inv["main"]) = 202
    /\ dispatch.delivered
    /\ inv["bg"].pc = "awaitFetch" /\ inv["bg"].fetch = "pending"

\* The trigger has answered 202 to a valid request.
Accepted ==
    /\ inv["main"].handler \in Triggers
    /\ ValidRequest(inv["main"])
    /\ Done(inv["main"]) /\ Status(inv["main"]) = 202

\* The contents the background stage owes the provider for the trigger's request.
ForwardedContents ==
    CallerHistoryOrEmpty(inv["main"]).items \o <<Turn("user", CallerMessage(inv["main"]))>>

\* C10 (as claimed), at the end of the background stage's run: after the
\* trigger has answered 202 to a valid request, the background stage has made
\* exactly one provider call.
C10_Original ==
    (Accepted /\ Done(inv["bg"])) => Len(inv["bg"].fetchCalls) = 1

\* The dispatch reached the background handler, the credential is configured
\* and the forwarded history is a list.
CanRelay ==
    /\ dispatch.delivered
    /\ apiKey
    /\ Iterable(CallerHistoryOrEmpty(inv["main"]))

\* C10 (amended): after the trigger has answered 202 to a valid request whose
\* history is absent or a list, and provided the platform delivered the
\* dispatch to the background handler and the credential is configured, the
\* background stage eventually performs exactly one provider call; it never
\* performs more than one, and the call's contents are the forwarded history
\* followed by one user turn holding the forwarded message.
C10_BackgroundCallsOnce ==
    /\ (Accepted /\ CanRelay) ~> (Len(inv["bg"].fetchCalls) = 1)
    /\ [](inv["main"].handler \in Triggers =>
            /\ Len(inv["bg"].fetchCalls) <= 1
            /\ Len(inv["bg"].fetchCalls) = 1 =>
                    inv["bg"].fetchCalls[1].contents = ForwardedContents)

C10_Witness ==
    /\ Accepted /\ CanRelay
    /\ CallerHistory(inv["main"]) = JList(<<Turn("model", JStr("a"))>>)
    /\ Len(inv["bg"].fetchCalls) = 1
    /\ inv["bg"].fetchCalls[1].contents = ForwardedContents

\* The trigger reached its dispatch and could not issue it: the call threw, or
\* (invoke-based trigger) the client context carries no identity or user.
DispatchFailed(i) ==
    \/ i.handler \in Triggers /\ dispatch.state = "rejected"
    \/ i.handler = "triggerInvoke" /\ ValidRequest(i) /\ ~i.clientContext

\* C11: when the dispatch to the background stage cannot be issued (the
\* dispatch call throws; in the invoke-based trigger the client context lacks
\* identity or user) the trigger's response is 500, and it is never 202; the
\* invoke-based trigger then has not dispatched anything.
C11_DispatchFailureIs500 ==
    LET i == inv["main"]
    IN  /\ (DispatchFailed(i) /\ Done(i)) => Status(i) = 500
        /\ (i.handler = "triggerInvoke" /\ ~i.clientContext)
                => /\ dispatch.bodies = <<>>
                   /\ Done(i) => Status(i) # 202

C11_Witness ==
    /\ inv["main"].handler = "trigger"
    /\ dispatch.state = "rejected"
    /\ dispatch.bodies # <<>>
    /\ Done(inv["main"]) /\ Status(inv["main"]) = 500

\* The relay of part_003 has answered 200.
RelaySucceeded(i) == i.handler = "relay" /\ Done(i) /\ Status(i) = 200

\* C12: the history in a 200 body of the relay (part_003) is the caller's
\* history in its order (empty when absent), then the new user turn holding
\* the message, then the new model turn holding the text of the reply field;
\* for an empty history these two turns are all of it.
C12_ReturnedHistory ==
    \A s \in Slots :
        LET i == inv[s]
            body == i.responses[1].body
        IN  RelaySucceeded(i)
                => /\ Ok(i.aiResponse.status)
                   /\ body.history = CallerHistoryOrEmpty(i).items
                            \o <<Turn("user", CallerMessage(i)), Turn("model", body.reply)>>
                   /\ CallerHistoryOrEmpty(i) = JList(<<>>) => Len(body.history) = 2

C12_Witness ==
    /\ RelaySucceeded(inv["main"])
    /\ CallerHistory(inv["main"]) = JList(<<Turn("model", JStr("a"))>>)
    /\ inv["main"].responses[1].body.reply = JStr("X")
    /\ Len(inv["main"].responses[1].body.history) = 3

\* The payload the caller's request calls for: the embedded system
\* instruction, the caller's history followed by one user turn whose single
\* part holds the message, and the output limit.
ExpectedPayload(i) ==
    [system_instruction |-> TRUE,
     contents |-> CallerHistoryOrEmpty(i).items \o <<Turn("user", CallerMessage(i))>>,
     maxOutputTokens |-> {1000}]

\* C13: whenever the relay (part_003) or the background handler sends a
\* payload to the provider, the request was valid and the payload's contents
\* are the caller's history, unmodified and in order, followed by exactly one
\* user turn whose single part holds the message; the whole payload depends on
\* the request alone, so both handlers send the same one for the same input.
C13_PayloadContents ==
    \A s \in Slots :
        LET i == inv[s]
        IN  (i.handler \in {"relay", "background"} /\ i.fetchCalls # <<>>)
                => /\ ValidRequest(i)
                   /\ Len(i.fetchCalls[1].contents) = Len(CallerHistoryOrEmpty(i).items) + 1
                   /\ i.fetchCalls[1] = ExpectedPayload(i)

C13_Witness ==
    /\ inv["main"].handler = "background"
    /\ CallerHistory(inv["main"]) = JList(<<Turn("user", JStr("q"))>>)
    /\ CallerMessage(inv["main"]) = JStr("hi")
    /\ inv["main"].fetchCalls =
            <<[system_instruction |-> TRUE,
               contents |-> <<Turn("user", JStr("q")), Turn("user", JStr("hi"))>>,
               maxOutputTokens |-> {1000}]>>

\* The provider has answered 2xx with the documented JSON shape, whose
\* candidates[0].content.parts[0].text is the string x.
ProviderSaid(i, x) ==
    /\ i.fetch = "resolved"
    /\ Ok(i.aiResponse.status)
    /\ i.aiResponse.body = JsonText(AiData(JStr(x)))

\* The texts the provider answers with in this model.
ProviderTexts == {"X", ""}

\* C14 (as claimed): for every text X, when the provider's 2xx answer holds X
\* at candidates[0].content.parts[0].text, the relay (part_003, chat.ts)
\* responds 200 with reply X.
C14_Original ==
    \A s \in Slots :
        LET i == inv[s]
        IN  \A x \in ProviderTexts :
                (i.handler \in {"relay", "chat"} /\ Done(i) /\ ProviderSaid(i, x))
                    => Status(i) = 200 /\ i.responses[1].body.reply = JStr(x)

\* C14 (amended): for every non-empty text X the relay responds 200 with
\* reply X; when the text is the empty string it responds 200 with the
\* handler's fixed fallback string as reply.
C14_ReplyIsProviderText ==
    \A s \in Slots :
        LET i == inv[s]
        IN  \A x \in ProviderTexts :
                (i.handler \in {"relay", "chat"} /\ Done(i) /\ ProviderSaid(i, x))
                    => /\ Status(i) = 200
                       /\ i.responses[1].body.reply =
                            IF x # "" THEN JStr(x)
                            ELSE IF i.handler = "relay"
                            THEN JStr("No response text generated.")
                            ELSE JStr("Sorry, I couldn't generate a response.")

C14_Witness ==
    /\ inv["main"].handler = "chat"
    /\ Done(inv["main"]) /\ ProviderSaid(inv["main"], "X")
    /\ Status(inv["main"]) = 200
    /\ inv["main"].responses[1].body.reply = JStr("X")

\* The JSON answers in which candidates[0].content.parts[0].text is missing at
\* some level: null, no candidates, empty candidates, no content, no parts,
\* empty parts, no text.
LacksText == AiDatas \ {AiData(JStr(x)) : x \in ProviderTexts}

\* The provider has answered 2xx with JSON that lacks the text.
ProviderLacksText(i) ==
    /\ i.fetch = "resolved"
    /\ Ok(i.aiResponse.status)
    /\ \E d \in LacksText : i.aiResponse.body = JsonText(d)

\* C15: when the provider's 2xx answer is JSON in which the path
\* candidates[0].content.parts[0].text is missing at any level, the relay
\* (part_003, chat.ts) responds 200 with the handler's fixed fallback string
\* as reply, never with an error status.
C15_FallbackReply ==
    \A s \in Slots :
        LET i == inv[s]
        IN  (i.handler \in {"relay", "chat"} /\ ProviderLacksText(i))
                => /\ i.pc \in {"awaitFetch", "checkStatus", "readJson", "done"}
                   /\ Done(i) =>
                        /\ Status(i) = 200
                        /\ i.responses[1].body.reply =
                            IF i.handler = "relay"
                            THEN JStr("No response text generated.")
                            ELSE JStr("Sorry, I couldn't generate a response.")

C15_Witness ==
    /\ inv["main"].handler = "relay"
    /\ inv["main"].aiResponse.body = JsonText(JObject(<<<<"candidates", JList(<<>>)>>>>))
    /\ ProviderLacksText(inv["main"])
    /\ Done(inv["main"]) /\ Status(inv["main"]) = 200
    /\ inv["main"].responses[1].body.reply = JStr("No response text generated.")

\* C16: for every POST made while the credential is not configured, the relay
\* (part_003, chat.ts) and the background handler issue no outbound call and
\* never get past the credential check, whatever the body is; the invocation
\* ends with the one response 500, not with an exception.
C16_MissingKeyIs500 ==
    \A s \in Slots :
        LET i == inv[s]
        IN  (i.handler \in {"relay", "chat", "background"} /\ IsPost(i) /\ ~apiKey)
                => /\ i.fetchCalls = <<>>
                   /\ ~i.bodyRead /\ ~i.bodyParsed
                   /\ i.pc \in {"start", "getKey", "done"}
                   /\ Done(i) => /\ Len(i.responses) = 1
                                 /\ Status(i) = 500
                                 /\ i.keyRead

C16_Witness ==
    /\ ~apiKey
    /\ inv["main"].handler = "background"
    /\ ValidRequest(inv["main"])
    /\ Done(inv["main"]) /\ Status(inv["main"]) = 500
    /\ inv["main"].fetchCalls = <<>>

\* The statuses the documented error taxonomy allows a handler to answer with.
DocumentedStatuses == {200, 202, 400, 405, 429, 500, 502, 504}

\* C17: every invocation of every handler that finishes ends with exactly one
\* response (no exception leaves the handler), and the status of that response
\* is one of 200, 202, 400, 405, 429, 500, 502, 504.
C17_OneResponseKnownStatus ==
    \A s \in Slots :
        LET i == inv[s]
        IN  /\ Len(i.responses) <= 1
            /\ Done(i) => /\ Len(i.responses) = 1
                          /\ Status(i) \in DocumentedStatuses

\* The position of a statement of the relay in the order of its source.
PcRank(pc) ==
    CASE pc = "start" -> 1
      [] pc = "getKey" -> 2
      [] pc = "checkBody" -> 3
      [] pc = "parse" -> 4
      [] pc = "checkMessage" -> 5
      [] pc = "build" -> 6
      [] pc = "callProvider" -> 7
      [] pc = "awaitFetch" -> 8
      [] pc = "checkStatus" -> 9
      [] pc \in {"readError", "readJson"} -> 10
      [] OTHER -> 11

\* The request has passed every check of the relay.
Validated(i) ==
    /\ IsPost(i) /\ i.keyRead /\ i.bodyRead /\ i.bodyParsed
    /\ Truthy(i.message)
    /\ PcRank(i.pc) > PcRank("checkMessage")

\* What holds of the relay at every moment of an invocation.
C18_Order(i) ==
    /\ Len(i.aiPayload) <= 1 /\ Len(i.fetchCalls) <= 1 /\ Len(i.responses) <= 1
    /\ i.aiPayload # <<>> => Validated(i) /\ PcRank(i.pc) > PcRank("build")
    /\ i.fetchCalls # <<>> => i.aiPayload = i.fetchCalls /\ PcRank(i.pc) > PcRank("callProvider")
    /\ i.fetch # "none" => i.fetchCalls # <<>>
    /\ i.responses # <<>> => Done(i) /\ i.fetch # "pending"
    /\ i.aiResponse # NoResponse => i.fetch = "resolved"

\* What holds of every step of the relay.
C18_Forward(i, j) ==
    /\ PcRank(j.pc) >= PcRank(i.pc)
    /\ j.aiPayload # i.aiPayload => i.pc = "build"
    /\ j.fetchCalls # i.fetchCalls => i.pc = "callProvider" /\ j.pc = "awaitFetch"
    /\ j.responses # i.responses => ~Done(i) /\ Done(j)

\* C18: within one invocation of the relay (part_003) the steps happen in the
\* order of the source and each at most once: the payload is built only after
\* the request passed validation, the call is issued only after the payload
\* was built and carries it, and a response is constructed only when no call
\* is pending (none was issued, or it resolved, failed or was aborted); the
\* invocation never goes back to an earlier step.
C18_FixedOrder ==
    /\ [](\A s \in Slots : inv[s].handler = "relay" => C18_Order(inv[s]))
    /\ [][\A s \in Slots :
            (inv[s].handler = "relay" /\ inv'[s].handler = "relay")
                => C18_Forward(inv[s], inv'[s])]_vars

C18_Witness ==
    /\ inv["main"].handler = "relay"
    /\ Done(inv["main"]) /\ Status(inv["main"]) = 200
    /\ inv["main"].fetch = "resolved"
    /\ inv["main"].fetchCalls = inv["main"].aiPayload
    /\ Len(inv["main"].fetchCalls) = 1

\* C19 (as claimed): the background handler answers a non-POST invocation
\* with 405 and a POST whose body is missing or whose message is absent or
\* empty with 400, in each case without calling the provider.
C19_Original ==
    \A s \in Slots :
        LET i == inv[s]
        IN  i.handler = "background"
                => /\ (~IsPost(i) \/ EmptyMessage(i)) => i.fetchCalls = <<>>
                   /\ (Done(i) /\ ~IsPost(i)) => Status(i) = 405
                   /\ (Done(i) /\ IsPost(i) /\ EmptyMessage(i)) => Status(i) = 400

\* C19 (amended): the background handler validates its own input and in none
\* of these cases calls the provider: a non-POST invocation is answered 405;
\* a POST whose body is missing or whose message is absent or empty is
\* answered 400 when the credential is configured and the body is not the JSON
\* value null, and 500 otherwise.
C19_BackgroundRevalidates ==
    \A s \in Slots :
        LET i == inv[s]
        IN  i.handler = "background"
                => /\ (~IsPost(i) \/ EmptyMessage(i)) => i.fetchCalls = <<>>
                   /\ (Done(i) /\ ~IsPost(i)) => Status(i) = 405
                   /\ (Done(i) /\ IsPost(i) /\ EmptyMessage(i))
                        => Status(i) = IF apiKey /\ i.event.body # JsonText(JNull)
                                       THEN 400 ELSE 500

C19_Witness ==
    /\ apiKey
    /\ inv["main"].handler = "background"
    /\ IsPost(inv["main"]) /\ inv["main"].event.body = NoBody
    /\ Done(inv["main"]) /\ Status(inv["main"]) = 400
    /\ inv["main"].fetchCalls = <<>>

\* The entries of an invocation's log.
Logged(i) == {i.log[n] : n \in 1..Len(i.log)}

\* The provider has answered the background handler 2xx with a JSON body.
BackgroundGotReply(i) ==
    /\ i.fetch = "resolved"
    /\ Ok(i.aiResponse.status)
    /\ i.aiResponse.body.k = "text" /\ i.aiResponse.body.json

\* The reply the background handler owes its log.
BackgroundReply(i) ==
    IF ProviderSaid(i, "X") THEN JStr("X")
    ELSE JStr("BACKGROUND: No response text generated.")

\* The texts a reply of the background stage consists of.
ReplyStrings == {"X", "BACKGROUND: No response text generated."}

\* No field of the response carries a reply.
WithoutReply(r) ==
    /\ "reply" \notin DOMAIN r.body
    /\ \A f \in DOMAIN r.body \ {"k"} : r.body[f] \notin ReplyStrings

\* C20: a finished invocation of the background handler that called the
\* provider has recorded its outcome: after a provider 2xx with a JSON body
\* the reply text is in the log and the response is 200 with the fixed body;
\* after a provider non-2xx or any exception a failure is in the log and the
\* response is 500 or 502.  No response of the background handler or of a
\* trigger carries the reply.
C20_BackgroundRecords ==
    \A s \in Slots :
        LET i == inv[s]
        IN  /\ (i.handler = "background" /\ Done(i) /\ i.fetchCalls # <<>>)
                => IF BackgroundGotReply(i)
                   THEN /\ Status(i) = 200
                        /\ i.responses[1].body = Plain("Background task completed.")
                        /\ \E e \in Logged(i) : e.level = "log" /\ e.detail = BackgroundReply(i)
                   ELSE /\ Status(i) \in {500, 502}
                        /\ \E e \in Logged(i) : e.level = "error"
            /\ i.handler \in Triggers \cup {"background"}
                => \A n \in 1..Len(i.responses) : WithoutReply(i.responses[n])

C20_Witness ==
    /\ Accepted
    /\ Done(inv["bg"]) /\ Status(inv["bg"]) = 200
    /\ ProviderSaid(inv["bg"], "X")
    /\ \E e \in Logged(inv["bg"]) : e.level = "log" /\ e.detail = JStr("X")
    /\ WithoutReply(inv["bg"].responses[1]) /\ WithoutReply(inv["main"].responses[1])

\* The four headers documented for a success response.
DocumentedHeaders ==
    {<<"Content-Type", "application/json">>,
     <<"Access-Control-Allow-Origin", "*">>,
     <<"Access-Control-Allow-Methods", "POST, OPTIONS">>,
     <<"Access-Control-Allow-Headers", "Content-Type">>}

\* C21: every 200 response of the relay (part_003, chat.ts) carries the four
\* headers Content-Type: application/json, Access-Control-Allow-Origin: *,
\* Access-Control-Allow-Methods: POST, OPTIONS and
\* Access-Control-Allow-Headers: Content-Type.
C21_SuccessHeaders ==
    \A s \in Slots :
        LET i == inv[s]
        IN  (i.handler \in {"relay", "chat"} /\ Done(i) /\ Status(i) = 200)
                => DocumentedHeaders \subseteq i.responses[1].headers

\* A POST whose body parses and holds a message that is not a string.
NonStringMessage(i) ==
    /\ Started(i) /\ IsPost(i) /\ BodyParses(i)
    /\ CallerMessage(i).k \notin {"undefined", "string"}

\* C22: a POST whose body parses and whose message is present and is not a
\* string is answered 400 by each handler, with no outbound call.  Stated for
\* handlers that hold the credential they read, which are the ones that reach
\* the message check.
C22_NonStringMessageRejected ==
    \A s \in Slots :
        LET i == inv[s]
        IN  (NonStringMessage(i) /\ (ReadsApiKey(i.handler) => apiKey))
                => /\ NoOutboundCall(i)
                   /\ Done(i) => Status(i) = 400

\* The statements that read the provider's answer.
ReadingAnswer(i) == i.pc \in {"checkStatus", "readError", "readJson"}

\* C23: in the relays with a deadline (part_003, chat.ts) the timer is armed
\* only while the handler awaits the fetch: it is not armed during validation
\* and payload construction, it is cleared when the handler resumes after the
\* fetch and before it reads the answer's status and body, the abort can fire
\* only while the fetch is pending, and once the provider's answer has arrived
\* the handler never responds 504.
C23_DeadlineOnlyWhilePending ==
    \A s \in Slots :
        LET i == inv[s]
        IN  HasDeadline(i.handler)
                => /\ i.timer \in {"armed", "fired"} => i.pc = "awaitFetch"
                   /\ PcRank(i.pc) < PcRank("awaitFetch") => i.timer = "none" /\ i.aborts = 0
                   /\ ReadingAnswer(i) => i.timer = "cleared" /\ i.fetch = "resolved"
                   /\ ENABLED DeadlineExpires(s) => i.pc = "awaitFetch" /\ i.fetch = "pending"
                   /\ i.aiResponse # NoResponse
                        => /\ i.aborts = 0
                           /\ Done(i) => Status(i) # 504
                   /\ (Done(i) /\ Status(i) = 504) => i.fetch = "aborted"

C23_Witness ==
    /\ inv["main"].handler = "chat"
    /\ inv["main"].aiResponse.body = BrokenBody
    /\ inv["main"].timer = "cleared"
    /\ Done(inv["main"]) /\ Status(inv["main"]) = 500

\* C24: in the relays with a deadline (part_003, chat.ts, part_001) every
\* invocation that armed the timer has cleared it when it returns, whichever
\* way it returns (success, provider error, timeout, network failure,
\* exception while reading the body): no timer is armed after the response,
\* the abort cannot fire any more, and it has fired at most once.
C24_TimerClearedOnReturn ==
    \A s \in Slots :
        LET i == inv[s]
        IN  HasDeadline(i.handler)
                => /\ i.aborts <= 1
                   /\ (i.timer # "none") <=> (i.fetchCalls # <<>>)
                   /\ Done(i) => /\ i.timer \in {"none", "cleared"}
                                 /\ ~ENABLED DeadlineExpires(s)

C24_Witness ==
    /\ inv["main"].handler = "chat"
    /\ inv["main"].fetch = "rejected"
    /\ Done(inv["main"]) /\ Status(inv["main"]) = 500
    /\ inv["main"].timer = "cleared"
    /\ inv["main"].aborts = 0

\* C25: in the relay of part_003, when the fetch rejects for a reason other
\* than the deadline's abort (no provider answer exists), the handler responds
\* 502, not 504 and not 500, and has issued that one call only; it responds
\* 504 only when the deadline aborted the call.
C25_NetworkFailureIs502 ==
    \A s \in Slots :
        LET i == inv[s]
        IN  i.handler = "relay"
                => /\ i.fetch = "rejected"
                        => /\ i.aborts = 0 /\ i.aiResponse = NoResponse
                           /\ Len(i.fetchCalls) = 1
                           /\ i.pc \in {"awaitFetch", "done"}
                           /\ Done(i) => Status(i) = 502
                   /\ (Done(i) /\ Status(i) = 504) => i.fetch = "aborted" /\ i.aborts = 1

C25_Witness ==
    /\ inv["main"].handler = "relay"
    /\ inv["main"].fetch = "rejected"
    /\ inv["main"].timer = "cleared"
    /\ inv["main"].aborts = 0
    /\ Done(inv["main"]) /\ Status(inv["main"]) = 502
    /\ inv["main"].responses[1].body.text = "Bad Gateway"

\* The statuses the dispatch call can resolve with: the platform's 404 or 202,
\* or the background handler's own answer.
DispatchStatuses == {200, 202, 400, 404, 500, 502}

\* C26: in the fetch-based trigger (part_004) the status the dispatch call
\* resolves with has no influence on the response: once the dispatch is
\* issued, the trigger responds 202 when the call resolved, whatever its
\* status, 4xx and 5xx included, and 500 only when the call threw.
C26_DispatchStatusIgnored ==
    LET i == inv["main"]
    IN  (i.handler = "trigger" /\ dispatch.bodies # <<>>)
            => /\ dispatch.state = "resolved" => dispatch.status \in DispatchStatuses
               /\ Done(i) =>
                    /\ dispatch.state \in {"resolved", "rejected"}
                    /\ dispatch.state = "resolved" => Status(i) = 202
                    /\ (Status(i) = 500) <=> (dispatch.state = "rejected")

C26_Witness ==
    /\ inv["main"].handler = "trigger"
    /\ dispatch.state = "resolved"
    /\ dispatch.status = 500
    /\ Done(inv["bg"]) /\ Status(inv["bg"]) = 500
    /\ Done(inv["main"]) /\ Status(inv["main"]) = 202

====
